---- MODULE Spec2Model ----
(***************************************************************************)
(* A model of the two radius-of-gyration analysis scripts                  *)
(*   src/analysis_scripts/compute_gyration.py      ("full": statistics of  *)
(*       the whole series, running average, confidence interval) and       *)
(*   src/analysis_scripts/compute_gyration (1).py  ("half": mean of the    *)
(*       last half of the series, g-factor and its classification).        *)
(*                                                                         *)
(* Spec   runs analyze_gyration_data and the __main__ block of either      *)
(*        script on an input file, step by step, with the exceptions each  *)
(*        step can raise and the two except clauses.                       *)
(* SpecFn applies the pure computations (window selection, g-factor,       *)
(*        classification, running average) to enumerated inputs.           *)
(*                                                                         *)
(* The arithmetic is IEEE-754 binary64, round to nearest even, computed    *)
(* exactly: a float is a sign, an integer significand and a binary         *)
(* exponent, the significand an arbitrary-precision natural number held in *)
(* limbs of LimbBits bits, least significant first.  The numpy reductions  *)
(* follow numpy's order of operations (pairwise summation in np.mean and   *)
(* np.std, left-to-right accumulation in np.cumsum).                       *)
(***************************************************************************)
EXTENDS Integers, Sequences, FiniteSets, TLC

(***************************************************************************)
(* Unsigned multi-limb integers: little-endian sequences of limbs in       *)
(* 0..Base-1 without high zero limbs (zero is the empty sequence).  They   *)
(* carry the exact intermediate results of IEEE-754 binary64 operations.   *)
(***************************************************************************)
LimbBits == 15
Base == 2^LimbBits

Max(a, b) == IF a >= b THEN a ELSE b
Min(a, b) == IF a <= b THEN a ELSE b

RECURSIVE BitLenInt(_)
BitLenInt(v) == IF v = 0 THEN 0 ELSE 1 + BitLenInt(v \div 2)

Limb(x, i) == IF i >= 1 /\ i <= Len(x) THEN x[i] ELSE 0

RECURSIVE BTrim(_)
BTrim(x) ==
  IF x # <<>> /\ x[Len(x)] = 0 THEN BTrim(SubSeq(x, 1, Len(x) - 1)) ELSE x

BFromInt(v) ==
  IF v = 0 THEN <<>>
  ELSE IF v < Base THEN <<v>>
  ELSE BTrim(<<v % Base, (v \div Base) % Base, v \div (Base * Base)>>)

BBitLen(x) ==
  IF x = <<>> THEN 0 ELSE (Len(x) - 1) * LimbBits + BitLenInt(x[Len(x)])

RECURSIVE BAddC(_, _, _, _)
BAddC(x, y, i, c) ==
  IF i > Len(x) /\ i > Len(y)
  THEN IF c = 0 THEN <<>> ELSE <<c>>
  ELSE LET t == Limb(x, i) + Limb(y, i) + c
       IN  <<t % Base>> \o BAddC(x, y, i + 1, t \div Base)

BAdd(x, y) == BAddC(x, y, 1, 0)

\* x - y for x >= y
RECURSIVE BSubC(_, _, _, _)
BSubC(x, y, i, c) ==
  IF i > Len(x) THEN <<>>
  ELSE LET t == x[i] - Limb(y, i) - c
       IN  IF t < 0 THEN <<t + Base>> \o BSubC(x, y, i + 1, 1)
                    ELSE <<t>> \o BSubC(x, y, i + 1, 0)

BSub(x, y) == BTrim(BSubC(x, y, 1, 0))

\* -1, 0, 1 as x < y, x = y, x > y
RECURSIVE BCmpFrom(_, _, _)
BCmpFrom(x, y, i) ==
  IF i = 0 THEN 0
  ELSE IF x[i] < y[i] THEN -1
  ELSE IF x[i] > y[i] THEN 1
  ELSE BCmpFrom(x, y, i - 1)

BCmp(x, y) ==
  IF Len(x) < Len(y) THEN -1
  ELSE IF Len(x) > Len(y) THEN 1
  ELSE BCmpFrom(x, y, Len(x))

RECURSIVE BMulSmallC(_, _, _, _)
BMulSmallC(x, k, i, c) ==
  IF i > Len(x)
  THEN IF c = 0 THEN <<>> ELSE <<c>>
  ELSE LET t == x[i] * k + c
       IN  <<t % Base>> \o BMulSmallC(x, k, i + 1, t \div Base)

\* x * k for 0 <= k < Base
BMulSmall(x, k) == IF k = 0 THEN <<>> ELSE BMulSmallC(x, k, 1, 0)

Zeros(n) == [i \in 1..n |-> 0]

BShlLimbs(x, n) == IF x = <<>> THEN <<>> ELSE Zeros(n) \o x

RECURSIVE BMulFrom(_, _, _)
BMulFrom(x, y, i) ==
  IF i > Len(x) THEN <<>>
  ELSE BAdd(BShlLimbs(BMulSmall(y, x[i]), i - 1), BMulFrom(x, y, i + 1))

BMul(x, y) == BMulFrom(x, y, 1)

\* x * 2^n
BShl(x, n) == BShlLimbs(BMulSmall(x, 2^(n % LimbBits)), n \div LimbBits)

\* floor(x / 2^n)
BShr(x, n) ==
  LET d == n \div LimbBits
      r == n % LimbBits
      lo == 2^r
      hi == 2^(LimbBits - r)
  IN  IF d >= Len(x) THEN <<>>
      ELSE BTrim([i \in 1..(Len(x) - d) |->
                    (x[i + d] \div lo) + (Limb(x, i + d + 1) % lo) * hi])

\* bit n of x (bit 0 is the least significant)
BBit(x, n) == (Limb(x, n \div LimbBits + 1) \div 2^(n % LimbBits)) % 2

\* whether any of the n low bits of x is set
BLowNonzero(x, n) ==
  LET d == n \div LimbBits
      r == n % LimbBits
  IN  \/ \E i \in 1..Min(d, Len(x)) : x[i] # 0
      \/ Limb(x, d + 1) % 2^r # 0

BOdd(x) == Limb(x, 1) % 2 = 1

(***************************************************************************)
(* Long division, one limb of quotient per step (Knuth's algorithm D with  *)
(* a corrected estimate).  The divisor d has its top limb >= Base/2.       *)
(***************************************************************************)
RECURSIVE QFix(_, _, _)
QFix(r, d, q) == IF BCmp(BMulSmall(d, q), r) = 1 THEN QFix(r, d, q - 1) ELSE q

\* floor(r / d) for r < d * Base
QDigit(r, d) ==
  LET k == Len(d)
      top == Limb(r, k + 1) * Base + Limb(r, k)
  IN  QFix(r, d, Min(top \div d[k], Base - 1))

\* <<quotient, remainder>> of (r * Base^i + low i limbs of n) by d, for r < d
RECURSIVE BDivLoop(_, _, _, _, _)
BDivLoop(n, d, i, r, q) ==
  IF i = 0 THEN <<BTrim(q), r>>
  ELSE LET r1 == BTrim(<<Limb(n, i)>> \o r)
           qd == QDigit(r1, d)
           r2 == BSub(r1, BMulSmall(d, qd))
       IN  BDivLoop(n, d, i - 1, r2, <<qd>> \o q)

\* <<floor(n / d), whether the division is inexact>> for d # 0
BDivMod(n, d) ==
  LET s == LimbBits - BitLenInt(d[Len(d)])
      res == BDivLoop(BShl(n, s), BShl(d, s), Len(n) + 1, <<>>, <<>>)
  IN  <<res[1], res[2] # <<>>>>

\* floor(sqrt(v)) for a small integer v
RECURSIVE ISqrtInt(_, _, _)
ISqrtInt(v, lo, hi) ==
  IF lo >= hi THEN lo
  ELSE LET mid == (lo + hi + 1) \div 2
       IN  IF mid * mid <= v THEN ISqrtInt(v, mid, hi) ELSE ISqrtInt(v, lo, mid - 1)

\* Newton's iteration from above: x <- floor((x + floor(n / x)) / 2)
RECURSIVE BSqrtNewton(_, _)
BSqrtNewton(n, x) ==
  LET y == BShr(BAdd(x, BDivMod(n, x)[1]), 1)
  IN  IF BCmp(y, x) = -1 THEN BSqrtNewton(n, y) ELSE x

\* floor(sqrt(n))
BSqrt(n) ==
  LET k == Len(n)
      top == IF k % 2 = 0 THEN n[k] * Base + n[k - 1] ELSE n[k]
      x0 == BShlLimbs(BFromInt(ISqrtInt(top, 0, Base - 1) + 1), (k - 1) \div 2)
  IN  IF n = <<>> THEN <<>> ELSE BSqrtNewton(n, x0)

(***************************************************************************)
(* IEEE-754 binary64 values, as numpy's float64 holds them: a finite value *)
(* is (-1)^sgn * man * 2^exp with man < 2^MantBits and exp >= ExpMin, man  *)
(* having MantBits bits unless exp = ExpMin (subnormal) and man = 0 only   *)
(* with exp = ExpMin.  Operations round to nearest, ties to even.          *)
(***************************************************************************)
MantBits == 53
ExpMin == -1074
ExpMax == 971

Fin(s, m, e) == [cls |-> "fin", sgn |-> s, man |-> m, exp |-> e]
FZero(s) == Fin(s, <<>>, ExpMin)
FInf(s) == [cls |-> "inf", sgn |-> s, man |-> <<>>, exp |-> 0]
FNaN == [cls |-> "nan", sgn |-> 0, man |-> <<>>, exp |-> 0]

IsNaN(a) == a.cls = "nan"
IsInf(a) == a.cls = "inf"
IsFinite(a) == a.cls = "fin"
IsZero(a) == a.cls = "fin" /\ a.man = <<>>

\* the float nearest to (-1)^s * (m + f) * 2^e, where 0 <= f < 1 and f # 0 iff sticky;
\* sticky is set only when m has more than MantBits + 1 bits
RoundPack(s, m, e, sticky) ==
  LET len == BBitLen(m)
      sh == Max(len - MantBits, ExpMin - e)
  IN  IF m = <<>> THEN FZero(s)
      ELSE IF sh <= 0
      THEN LET up == Min(MantBits - len, e - ExpMin)
           IN  IF e - up > ExpMax THEN FInf(s) ELSE Fin(s, BShl(m, up), e - up)
      ELSE LET q == BShr(m, sh)
               half == BBit(m, sh - 1) = 1
               rest == sticky \/ BLowNonzero(m, sh - 1)
               q1 == IF half /\ (rest \/ BOdd(q)) THEN BAdd(q, <<1>>) ELSE q
               carry == BBitLen(q1) > MantBits
               q2 == IF carry THEN BShr(q1, 1) ELSE q1
               e2 == IF carry THEN e + sh + 1 ELSE e + sh
           IN  IF e2 > ExpMax THEN FInf(s)
               ELSE IF q2 = <<>> THEN FZero(s)
               ELSE Fin(s, q2, e2)

\* a small non-negative integer as a float (exact)
FromInt(n) == RoundPack(0, BFromInt(n), 0, FALSE)

FNeg(a) == IF IsNaN(a) THEN a ELSE [a EXCEPT !.sgn = 1 - a.sgn]
FAbs(a) == IF IsNaN(a) THEN a ELSE [a EXCEPT !.sgn = 0]

\* a + b for finite a, b with a.exp >= b.exp
FAddOrdered(a, b) ==
  LET d == a.exp - b.exp
      ma == BShl(a.man, d)
      c == BCmp(ma, b.man)
  IN  IF b.man = <<>>
      THEN IF a.man = <<>> THEN FZero(IF a.sgn = 1 /\ b.sgn = 1 THEN 1 ELSE 0) ELSE a
      ELSE IF d > MantBits + 2 /\ BBitLen(a.man) = MantBits THEN a
      ELSE IF a.sgn = b.sgn THEN RoundPack(a.sgn, BAdd(ma, b.man), b.exp, FALSE)
      ELSE IF c = 0 THEN FZero(0)
      ELSE IF c = 1 THEN RoundPack(a.sgn, BSub(ma, b.man), b.exp, FALSE)
      ELSE RoundPack(b.sgn, BSub(b.man, ma), b.exp, FALSE)

FAdd(a, b) ==
  IF IsNaN(a) \/ IsNaN(b) THEN FNaN
  ELSE IF IsInf(a) THEN (IF IsInf(b) /\ a.sgn # b.sgn THEN FNaN ELSE a)
  ELSE IF IsInf(b) THEN b
  ELSE IF a.exp >= b.exp THEN FAddOrdered(a, b) ELSE FAddOrdered(b, a)

FSub(a, b) == FAdd(a, FNeg(b))

FMul(a, b) ==
  LET s == (a.sgn + b.sgn) % 2
  IN  IF IsNaN(a) \/ IsNaN(b) THEN FNaN
      ELSE IF IsInf(a) \/ IsInf(b)
      THEN IF IsZero(a) \/ IsZero(b) THEN FNaN ELSE FInf(s)
      ELSE RoundPack(s, BMul(a.man, b.man), a.exp + b.exp, FALSE)

\* a / b with numpy's float64 semantics (division by zero gives inf or nan, no exception)
FDiv(a, b) ==
  LET s == (a.sgn + b.sgn) % 2
      la == MantBits - BBitLen(a.man)
      lb == MantBits - BBitLen(b.man)
      qr == BDivMod(BShlLimbs(BShl(a.man, la), 4), BShl(b.man, lb))
  IN  IF IsNaN(a) \/ IsNaN(b) THEN FNaN
      ELSE IF IsInf(a) THEN (IF IsInf(b) THEN FNaN ELSE FInf(s))
      ELSE IF IsInf(b) THEN FZero(s)
      ELSE IF IsZero(b) THEN (IF IsZero(a) THEN FNaN ELSE FInf(s))
      ELSE IF IsZero(a) THEN FZero(s)
      ELSE RoundPack(s, qr[1], (a.exp - la) - (b.exp - lb) - 4 * LimbBits, qr[2])

FSqrt(a) ==
  LET la == MantBits - BBitLen(a.man)
      e0 == a.exp - la
      k == IF e0 % 2 = 0 THEN 4 * LimbBits ELSE 4 * LimbBits + 1
      n == BShl(a.man, la + k)
      r == BSqrt(n)
  IN  IF IsNaN(a) THEN FNaN
      ELSE IF IsZero(a) THEN a
      ELSE IF a.sgn = 1 THEN FNaN
      ELSE IF IsInf(a) THEN a
      ELSE RoundPack(0, r, (e0 - k) \div 2, BCmp(BMul(r, r), n) # 0)

\* |a| < |b| for a, b not NaN
FMagLess(a, b) ==
  IF IsInf(a) THEN FALSE
  ELSE IF IsInf(b) THEN TRUE
  ELSE IF a.exp # b.exp THEN a.exp < b.exp
  ELSE BCmp(a.man, b.man) = -1

\* a < b: false when either side is NaN; -0.0 and +0.0 are equal
FLess(a, b) ==
  /\ ~IsNaN(a)
  /\ ~IsNaN(b)
  /\ ~(IsZero(a) /\ IsZero(b))
  /\ IF a.sgn # b.sgn THEN a.sgn = 1
     ELSE IF a.sgn = 0 THEN FMagLess(a, b)
     ELSE FMagLess(b, a)

\* a == b: false when either side is NaN; -0.0 and +0.0 are equal
FEq(a, b) == ~IsNaN(a) /\ ~IsNaN(b) /\ ((IsZero(a) /\ IsZero(b)) \/ a = b)

\* the same float64 datum (NaN is the same datum as NaN)
FSame(a, b) == a = b

\* a finite non-zero value with a full MantBits-bit significand (not subnormal)
IsNormal(a) == IsFinite(a) /\ BBitLen(a.man) = MantBits
(***************************************************************************)
(* float64 literals of the scripts and sample inputs, as                   *)
(* Fin(sign, significand limbs, exponent).                                 *)
(***************************************************************************)
\* 0.445 = 0x1.c7ae147ae147bp-2 (expected_g)
F_0_445 == Fin(0, <<5243, 3932, 27525, 227>>, -54)
\* 0.05 = 0x1.999999999999ap-5 (the "excellent" threshold)
F_0_05 == Fin(0, <<6554, 13107, 26214, 204>>, -57)
\* 0.1 = 0x1.999999999999ap-4 (the "good" threshold; also a sample Rg value)
F_0_1 == Fin(0, <<6554, 13107, 26214, 204>>, -56)
\* 10.0 = 0x1.4p+3
F_10 == Fin(0, <<0, 0, 0, 160>>, -49)
\* 2e-162 = 0x1.ccb0536608d61p-538 (its square is subnormal)
F_2em162 == Fin(0, <<3425, 27841, 11284, 230>>, -590)
\* 1e200 = 0x1.4e718d7d7625ap+664 (its square overflows)
F_1e200 == Fin(0, <<25178, 12206, 7267, 167>>, 612)
\* 10.727765151714772 (its square lies within 0.001 ulp of a rounding midpoint)
F_10_7277 == Fin(0, <<4381, 17559, 21110, 171>>, -49)
\* 3.7 = 0x1.d99999999999ap+1
F_3_7 == Fin(0, <<6554, 13107, 26214, 236>>, -51)
\* 1e-9 = 0x1.12e0be826d695p-30
F_1em9 == Fin(0, <<22165, 20557, 14383, 137>>, -82)

(***************************************************************************)
(* numpy reductions over a one-dimensional float64 array (a sequence).     *)
(***************************************************************************)
\* numpy sums fewer than PW_UNROLL elements left to right, and longer arrays in
\* PW_UNROLL interleaved accumulators; arrays longer than PW_BLOCKSIZE are halved
PW_UNROLL == 8
PW_BLOCKSIZE == 128

\* acc + a[i] + a[i+1] + ... + a[n], added left to right
RECURSIVE SumFrom(_, _, _, _)
SumFrom(a, i, n, acc) ==
  IF i > n THEN acc ELSE SumFrom(a, i + 1, n, FAdd(acc, a[i]))

\* a[j] + a[j + PW_UNROLL] + a[j + 2 * PW_UNROLL] + ... over indices <= n
RECURSIVE StrideSum(_, _, _, _)
StrideSum(a, i, n, acc) ==
  IF i > n THEN acc ELSE StrideSum(a, i + PW_UNROLL, n, FAdd(acc, a[i]))

\* r[1] + r[2] + ... combined in pairs: ((r0 + r1) + (r2 + r3)) + ((r4 + r5) + (r6 + r7))
RECURSIVE TreeSum(_)
TreeSum(r) ==
  IF Len(r) = 1 THEN r[1]
  ELSE TreeSum([i \in 1..(Len(r) \div 2) |-> FAdd(r[2 * i - 1], r[2 * i])])

\* the last index of a[lo..hi] the unrolled loop covers: n - (n % PW_UNROLL) elements
UnrollEnd(lo, hi) == hi - ((hi - lo + 1) % PW_UNROLL)

\* the PW_UNROLL interleaved partial sums r[0..7] of the unrolled loop
PartialSums(a, lo, hi) ==
  [j \in 1..PW_UNROLL |->
     StrideSum(a, lo + j - 1 + PW_UNROLL, UnrollEnd(lo, hi), a[lo + j - 1])]

\* n2 = n / 2; n2 -= n2 % PW_UNROLL
HalfBlock(n) == (n \div 2) - ((n \div 2) % PW_UNROLL)

\* numpy's pairwise_sum (the inner loop of np.add.reduce) over a[lo..hi]
RECURSIVE PairwiseSum(_, _, _)
PairwiseSum(a, lo, hi) ==
  IF hi < lo THEN FZero(0)
  ELSE IF hi - lo + 1 < PW_UNROLL THEN SumFrom(a, lo + 1, hi, a[lo])
  ELSE IF hi - lo + 1 <= PW_BLOCKSIZE
  THEN SumFrom(a, UnrollEnd(lo, hi) + 1, hi, TreeSum(PartialSums(a, lo, hi)))
  ELSE FAdd(PairwiseSum(a, lo, lo + HalfBlock(hi - lo + 1) - 1),
            PairwiseSum(a, lo + HalfBlock(hi - lo + 1), hi))

\* np.sum(a)
np_sum(a) == PairwiseSum(a, 1, Len(a))

\* np.mean(a): the pairwise sum divided by the element count
np_mean(a) == FDiv(np_sum(a), FromInt(Len(a)))

\* x = arr - arrmean; x = multiply(x, x)
SquaredDeviations(a, m) == [i \in 1..Len(a) |-> FMul(FSub(a[i], m), FSub(a[i], m))]

\* np.std(a): population standard deviation, sqrt(sum((a - mean(a))^2) / n)
np_std_mutant_uncentred(a) ==
  FSqrt(FDiv(np_sum(SquaredDeviations(a, FZero(0))), FromInt(Len(a))))
np_std(a) ==
  FSqrt(FDiv(np_sum(SquaredDeviations(a, np_mean(a))), FromInt(Len(a))))

\* np.minimum / np.maximum propagate NaN
Minimum(x, y) == IF FLess(x, y) \/ IsNaN(x) THEN x ELSE y
Maximum(x, y) == IF (~IsNaN(y) /\ ~FLess(x, y)) \/ IsNaN(x) THEN x ELSE y

RECURSIVE MinFrom(_, _, _)
MinFrom(a, i, acc) ==
  IF i > Len(a) THEN acc ELSE MinFrom(a, i + 1, Minimum(acc, a[i]))

RECURSIVE MaxFrom(_, _, _)
MaxFrom(a, i, acc) ==
  IF i > Len(a) THEN acc ELSE MaxFrom(a, i + 1, Maximum(acc, a[i]))

\* np.min(a), np.max(a) for a non-empty array
np_min(a) == MinFrom(a, 2, a[1])
np_max(a) == MaxFrom(a, 2, a[1])

\* np.cumsum(a): out[i] = out[i-1] + a[i], left to right
RECURSIVE CumSumFrom(_, _, _)
CumSumFrom(a, i, out) ==
  IF i > Len(a) THEN out
  ELSE CumSumFrom(a, i + 1, Append(out, FAdd(out[i - 1], a[i])))

np_cumsum(a) == IF a = <<>> THEN <<>> ELSE CumSumFrom(a, 2, <<a[1]>>)

\* cs / np.arange(1, len(cs) + 1)
OverCounts(cs) == [i \in 1..Len(cs) |-> FDiv(cs[i], FromInt(i))]

\* running_avg = np.cumsum(rg_values) / np.arange(1, len(rg_values) + 1)
running_average_mutant_total(rg_values) ==
  [i \in 1..Len(rg_values) |-> FDiv(np_cumsum(rg_values)[i], FromInt(Len(rg_values)))]
running_average(rg_values) == OverCounts(np_cumsum(rg_values))

(***************************************************************************)
(* The half-tail script's selection, g-factor and classification.          *)
(***************************************************************************)
\* equilibrated_start = len(rg_values) // 2
equilibrated_start_mutant_ceil(n) == (n + 1) \div 2
equilibrated_start(n) == n \div 2

\* equilibrated_rg = rg_values[equilibrated_start:]
equilibrated_rg(rg_values) ==
  SubSeq(rg_values, equilibrated_start(Len(rg_values)) + 1, Len(rg_values))

\* expected_g = 0.445
expected_g == F_0_445

\* the number of low bits of m that rounding m * 2^e to a float discards
DroppedBits(m, e) == Max(BBitLen(m) - MantBits, ExpMin - e)

\* whether m * 2^e lies within 0.04 ulp of the midpoint of the two floats around
\* it, sh > 0 being the number of bits dropped: 0.46 <= (m mod 2^sh) / 2^sh <= 0.54
NearMidpoint(m, sh) ==
  /\ BCmp(BMulSmall(BSub(m, BShl(BShr(m, sh), sh)), 100),
          BMulSmall(BShl(<<1>>, sh), 46)) >= 0
  /\ BCmp(BMulSmall(BSub(m, BShl(BShr(m, sh), sh)), 100),
          BMulSmall(BShl(<<1>>, sh), 54)) <= 0

\* the two floats around m * 2^e
Neighbours(m, e, sh) ==
  {RoundPack(0, BShl(BShr(m, sh), sh), e, FALSE),
   RoundPack(0, BShl(BAdd(BShr(m, sh), <<1>>), sh), e, FALSE)}

\* the floats libm's pow may return for the positive exact value m * 2^e: its error
\* is below 0.54 ulp, so it returns the nearest float unless the exact value lies
\* within 0.04 ulp of a midpoint, where it returns either neighbour
PowOutcomes(m, e) ==
  IF DroppedBits(m, e) > 0 /\ NearMidpoint(m, DroppedBits(m, e))
  THEN Neighbours(m, e, DroppedBits(m, e))
  ELSE {RoundPack(0, m, e, FALSE)}

\* x ** 2 on a float64 scalar: pow(x, 2.0), as the set of results it may return
Pow2(x) ==
  IF IsFinite(x) /\ ~IsZero(x)
  THEN PowOutcomes(BMul(x.man, x.man), 2 * x.exp)
  ELSE {FMul(x, x)}

\* rg_linear_theoretical = rg_tetracyclic / np.sqrt(expected_g)
rg_linear_mutant_nosqrt(rg_tetracyclic) == FDiv(rg_tetracyclic, expected_g)
rg_linear_theoretical(rg_tetracyclic) == FDiv(rg_tetracyclic, FSqrt(expected_g))

\* actual_g = (rg_tetracyclic ** 2) / (rg_linear_theoretical ** 2)
\* given the values of the two powers
actual_g(sq_tetracyclic, sq_linear) == FDiv(sq_tetracyclic, sq_linear)

\* abs(actual_g - expected_g)
difference(g) == FAbs(FSub(g, expected_g))

\* the if / elif / else on abs(actual_g - expected_g)
classify_mutant_closed(d) ==
  IF FLess(d, F_0_05) \/ FEq(d, F_0_05) THEN "excellent"
  ELSE IF FLess(d, F_0_1) \/ FEq(d, F_0_1) THEN "good"
  ELSE "needs_review"
classify(d) ==
  IF FLess(d, F_0_05) THEN "excellent"
  ELSE IF FLess(d, F_0_1) THEN "good"
  ELSE "needs_review"

\* the values of the g-factor block, the verdict being the branch taken
g_record(rg, lin, sq, sql) ==
  [rg_tetracyclic |-> rg, rg_linear_theoretical |-> lin,
   sq_tetracyclic |-> sq, sq_linear |-> sql,
   actual_g |-> actual_g(sq, sql),
   difference |-> difference(actual_g(sq, sql)),
   verdict |-> classify(difference(actual_g(sq, sql)))]

g_with_reference(rg, lin) ==
  {g_record(rg, lin, sq, sql) : sq \in Pow2(rg), sql \in Pow2(lin)}

\* the g-factor computation on a measured average Rg: the records it may produce
g_factor(avg_rg) == g_with_reference(avg_rg, rg_linear_theoretical(avg_rg))

\* the calls pow(x, 2.0) of one g-factor computation, as <<argument, result>>
pow_calls(g) ==
  {<<g.rg_tetracyclic, g.sq_tetracyclic>>, <<g.rg_linear_theoretical, g.sq_linear>>}

\* pow is a function: the calls give an argument one result
pow_is_function(calls) == \A c \in calls : \A d \in calls : c[1] = d[1] => c[2] = d[2]

\* the g-factor computation in a build whose pow has answered the calls
g_factor_of_build(avg_rg, calls) ==
  {g \in g_factor(avg_rg) : pow_is_function(calls \cup pow_calls(g))}
(***************************************************************************)
(* Bounds of the model.                                                    *)
(***************************************************************************)
\* rows of an input table in a run of a script
MaxRows == 4
\* length of the series the pure operators are applied to
MaxRun == 8
\* the classification is applied to the differences k/200, k in 0..MaxD
MaxD == 60
\* times the g-factor computation is applied to one input
MaxCalls == 2

\* Rg values of an input table in a run of a script
RgValues == {FZero(0), F_0_1, F_10, F_2em162, F_1e200}
\* Rg values of the series the running average is applied to
RunValues == {F_0_1, F_10}

SeqsUpTo(S, n) == UNION {[1..k -> S] : k \in 0..n}

(***************************************************************************)
(* The input file as np.loadtxt sees it.  A table's rows hold the timestep *)
(* (the row number, from 0) and, with two columns, the Rg value.           *)
(***************************************************************************)
MissingFile ==
  [kind |-> "missing", ncols |-> 0, rg |-> <<>>, nrows |-> 0, token |-> "none",
   timestep |-> "none"]
\* a file with a token that is not a number; the token is "ascii", "latin"
\* (characters of cp1252 beyond ASCII) or "symbol" (characters outside cp1252)
MalformedFile(token) ==
  [kind |-> "malformed", ncols |-> 0, rg |-> <<>>, nrows |-> 0, token |-> token,
   timestep |-> "none"]
\* a table's first column holds the row numbers ("count"), or nan or inf
Table(c, n, rg, t) ==
  [kind |-> "table", ncols |-> c, rg |-> rg, nrows |-> n, token |-> "none",
   timestep |-> t]

Files ==
  {MissingFile}
    \cup {MalformedFile(t) : t \in {"ascii", "latin", "symbol"}}
    \cup {Table(1, n, <<>>, "count") : n \in 1..MaxRows}
    \cup {Table(2, Len(rg), rg, "count") : rg \in SeqsUpTo(RgValues, MaxRows)}
    \cup {Table(2, Len(rg), rg, t) :
            rg \in SeqsUpTo({F_10}, MaxRows) \ {<<>>}, t \in {"nan", "inf"}}

\* the filename parameter's default in each script
default_filename(s) == IF s = "full" THEN "gyration_data.txt" ELSE "gyration.txt"
\* the report file each script writes
report_filename(s) ==
  IF s = "full" THEN "simulation_results.txt" ELSE "g_factor_results.txt"

\* the exception np.loadtxt raises on the file, or "none"
loadtxt_error(f) ==
  IF f.kind = "missing" THEN "FileNotFoundError"
  ELSE IF f.kind = "malformed" THEN "ValueError"
  ELSE "none"

\* the number of dimensions of the array np.loadtxt returns (ndmin=0 squeezes
\* a single row or a single column away; no rows give an empty 1-D array)
loadtxt_ndim_mutant_empty2d(f) ==
  IF f.nrows # 1 /\ f.ncols >= 2 THEN 2
  ELSE IF f.nrows = 1 /\ f.ncols = 1 THEN 0
  ELSE 1
loadtxt_ndim(f) ==
  IF f.nrows >= 2 /\ f.ncols >= 2 THEN 2
  ELSE IF f.nrows = 1 /\ f.ncols = 1 THEN 0
  ELSE 1

\* timesteps = data[:, 0]; rg_values = data[:, 1]
loaded(f) ==
  [timesteps |-> [i \in 1..f.nrows |->
                    IF f.timestep = "nan" THEN FNaN
                    ELSE IF f.timestep = "inf" THEN FInf(0)
                    ELSE FromInt(i - 1)],
   rg_values |-> f.rg]

\* the exception int(timesteps[-1]) raises, or "none"
int_error(timesteps) ==
  IF timesteps = <<>> THEN "IndexError"
  ELSE IF IsNaN(timesteps[Len(timesteps)]) THEN "ValueError"
  ELSE IF IsInf(timesteps[Len(timesteps)]) THEN "OverflowError"
  ELSE "none"

\* the encodings of standard output and of text files the scripts are run with
Encodings == {"utf-8", "cp1252", "ascii"}

\* whether text can be printed to a stream of the encoding; the text is "ascii",
\* "latin" (characters of cp1252 beyond ASCII) or "symbol" (characters outside cp1252)
encodes(enc, text) ==
  \/ text = "ascii"
  \/ enc = "utf-8"
  \/ enc = "cp1252" /\ text = "latin"

\* the least encodable text of the prints of the results (compute_gyration.py
\* lines 40-43, compute_gyration (1).py line 50)
results_text(s) == "latin"
\* the text of the print of the branch taken (compute_gyration (1).py lines 57-61)
verdict_text(s) == "symbol"
\* the text of str(e): np.loadtxt's ValueError quotes the token it could not
\* convert; the other messages are ASCII
exception_text(e, f) ==
  IF e = "ValueError" /\ f.kind = "malformed" THEN f.token ELSE "ascii"
\* the least encodable text the except clause entered for e prints:
\* compute_gyration (1).py prints U+274C in both clauses, compute_gyration.py
\* the file name (first clause) or the exception's text (second clause)
handler_text(s, e, f) ==
  IF s = "half" THEN "symbol"
  ELSE IF e = "FileNotFoundError" THEN "ascii"
  ELSE exception_text(e, f)
\* the text of the completion banner of __main__
banner_text(s) == IF s = "full" THEN "latin" ELSE "symbol"
\* the least encodable text written to the report file
report_text(s) == "latin"

VARIABLES
  script,    \* "full": compute_gyration.py, "half": compute_gyration (1).py
  file,      \* the input file
  stdout,    \* the encoding of standard output
  uncaught,  \* the exception that ended the program, or "none"
  pc,        \* the position of the run
  data,      \* <<the loaded columns>> once loaded
  stats,     \* <<the statistics record>> once computed
  gres,      \* <<the g-factor record>> once computed (half)
  libm_pow,  \* the calls pow(x, 2.0) the build's pow has answered so far
  running,   \* <<running_avg>> once computed (full)
  png,       \* rg_analysis_results.png: "absent" or "written"
  report,    \* the report file: "absent", "partial" or "complete"
  report_encoding, \* f.encoding of the report file once opened, or "none"
  err,       \* the exception raised, or "none"
  msg,       \* what the except clause printed
  ret,       \* the return value of analyze_gyration_data
  banner,    \* whether __main__ printed its completion banner
  fn,        \* the operator applied on its own ("none" in a run of a script)
  arg,       \* its argument
  res        \* <<its result>> once applied

vars == <<script, file, stdout, uncaught, pc, data, stats, gres, libm_pow, running,
          png, report, report_encoding, err, msg, ret, banner, fn, arg, res>>

progVars == <<script, file, stdout, uncaught, pc, data, stats, gres, libm_pow, running,
              png, report, report_encoding, err, msg, ret, banner>>
fnVars == <<fn, arg, res>>

Pending == [kind |-> "pending", val |-> <<>>]
\* None (full) or (None, None, None) (half)
Failure == [kind |-> "failure", val |-> <<>>]
Value(v) == [kind |-> "value", val |-> v]

Init ==
  /\ script \in {"full", "half"}
  /\ file \in Files
  /\ stdout \in Encodings
  /\ uncaught = "none"
  /\ pc = "start"
  /\ data = <<>>
  /\ stats = <<>>
  /\ gres = <<>>
  /\ libm_pow = {}
  /\ running = <<>>
  /\ png = "absent"
  /\ report = "absent"
  /\ report_encoding = "none"
  /\ err = "none"
  /\ msg = <<>>
  /\ ret = Pending
  /\ banner = FALSE
  /\ fn = "none"
  /\ arg = <<>>
  /\ res = <<>>

Raise(e) ==
  /\ pc' = "raised"
  /\ err' = e

\* data = np.loadtxt(filename); timesteps = data[:, 0]; rg_values = data[:, 1]
Load ==
  /\ pc = "start"
  /\ IF loadtxt_error(file) # "none"
     THEN Raise(loadtxt_error(file)) /\ data' = data
     ELSE IF loadtxt_ndim(file) < 2
     THEN Raise("IndexError") /\ data' = data
     ELSE pc' = "loaded" /\ data' = <<loaded(file)>> /\ err' = err
  /\ UNCHANGED <<script, file, stdout, uncaught, stats, gres, libm_pow, running, png,
                 report, report_encoding, msg, ret, banner, fnVars>>

\* compute_gyration.py: mean, std, min, max, n and the arguments of
\* stats.t.interval(0.95, n-1, loc=mean_rg, scale=std_rg/np.sqrt(n))
statistics_record(rg_values, mean_rg, std_rg) ==
  [mean_rg |-> mean_rg, std_rg |-> std_rg,
   min_rg |-> np_min(rg_values), max_rg |-> np_max(rg_values),
   n |-> Len(rg_values), window |-> rg_values,
   conf_int |-> [df |-> Len(rg_values) - 1, loc |-> mean_rg,
                 scale |-> FDiv(std_rg, FSqrt(FromInt(Len(rg_values))))]]

full_statistics(rg_values) ==
  statistics_record(rg_values, np_mean(rg_values), np_std(rg_values))

\* compute_gyration (1).py: the equilibrated window, its mean and std
window_statistics(start, w) ==
  [equilibrated_start |-> start, window |-> w,
   avg_rg |-> np_mean(w), std_rg |-> np_std(w)]

half_statistics(rg_values) ==
  window_statistics(equilibrated_start(Len(rg_values)), equilibrated_rg(rg_values))

\* compute_gyration.py lines 27-44: the statistics, then the prints of the results
AnalyzeFull ==
  /\ pc = "loaded"
  /\ script = "full"
  /\ IF data[1].rg_values = <<>>
     THEN \* np.min of an empty array raises
          Raise("ValueError") /\ stats' = stats
     ELSE /\ stats' = <<full_statistics(data[1].rg_values)>>
          /\ IF encodes(stdout, results_text(script))
             THEN pc' = "analyzed" /\ err' = err
             ELSE Raise("UnicodeEncodeError")
  /\ UNCHANGED <<script, file, stdout, uncaught, data, gres, libm_pow, running, png,
                 report, report_encoding, msg, ret, banner, fnVars>>

\* the values of the g-factor block when line 50 raises: the difference is not
\* evaluated and no branch is taken
g_before_difference(g) == [k \in DOMAIN g \ {"difference", "verdict"} |-> g[k]]

\* compute_gyration (1).py lines 26-63: the statistics, int(timesteps[-1]), the
\* g-factor, the prints of the results, the difference and the print of the branch
AnalyzeHalf ==
  /\ pc = "loaded"
  /\ script = "half"
  /\ stats' = IF data[1].rg_values = <<>> THEN stats
              ELSE <<half_statistics(data[1].rg_values)>>
  /\ IF int_error(data[1].timesteps) # "none"
     THEN /\ Raise(int_error(data[1].timesteps))
          /\ gres' = gres /\ libm_pow' = libm_pow
     ELSE \E g \in g_factor_of_build(stats'[1].avg_rg, libm_pow) :
            /\ libm_pow' = libm_pow \cup pow_calls(g)
            /\ IF ~encodes(stdout, results_text(script))
               THEN gres' = <<g_before_difference(g)>> /\ Raise("UnicodeEncodeError")
               ELSE /\ gres' = <<g>>
                    /\ IF encodes(stdout, verdict_text(script))
                       THEN pc' = "analyzed" /\ err' = err
                       ELSE Raise("UnicodeEncodeError")
  /\ UNCHANGED <<script, file, stdout, uncaught, data, running, png, report,
                 report_encoding, msg, ret, banner, fnVars>>

\* the figure is built (plt.figure ... plt.grid), where matplotlib may raise;
\* compute_gyration.py then computes running_avg for its third panel; the figure is
\* laid out and saved (plt.tight_layout, plt.savefig), where matplotlib may raise
\* and opening the file may raise FileNotFoundError
PlotAndSave ==
  /\ pc = "analyzed"
  /\ \E outcome \in {"figure_fails", "layout_fails", "savefig_not_found", "ok"} :
       /\ running' = IF script = "full" /\ outcome # "figure_fails"
                     THEN <<running_average(data[1].rg_values)>>
                     ELSE running
       /\ IF outcome = "ok"
          THEN pc' = "saved" /\ png' = "written" /\ err' = err
          ELSE /\ Raise(IF outcome = "savefig_not_found" THEN "FileNotFoundError"
                        ELSE "PlotError")
               /\ png' = png
  /\ UNCHANGED <<script, file, stdout, uncaught, data, stats, gres, libm_pow, report,
                 report_encoding, msg, ret, banner, fnVars>>

\* plt.show() (compute_gyration.py only); it may raise
Show ==
  /\ pc = "saved"
  /\ script = "full"
  /\ \E ok \in BOOLEAN :
       IF ok THEN pc' = "shown" /\ err' = err ELSE Raise("ShowError")
  /\ UNCHANGED <<script, file, stdout, uncaught, data, stats, gres, libm_pow, running,
                 png, report, report_encoding, msg, ret, banner, fnVars>>

\* with open(report, 'w') as f: f.write(...) ...: open may raise, with
\* FileNotFoundError or another OSError (nothing is written); the opened file has
\* the encoding of the locale; a write may raise OSError, and the write of the
\* first line the file's encoding cannot encode raises UnicodeEncodeError (the
\* file is left partial, with the lines before it)
WriteReport ==
  /\ pc = IF script = "full" THEN "shown" ELSE "saved"
  /\ \E outcome \in {"open_not_found", "open_fails", "write_fails", "written"} :
       IF outcome \in {"open_not_found", "open_fails"}
       THEN /\ Raise(IF outcome = "open_not_found" THEN "FileNotFoundError"
                     ELSE "OSError")
            /\ report' = report
            /\ report_encoding' = report_encoding
       ELSE \E enc \in Encodings :
              /\ report_encoding' = enc
              /\ IF outcome = "written" /\ encodes(enc, report_text(script))
                 THEN pc' = "reported" /\ report' = "complete" /\ err' = err
                 ELSE /\ Raise(IF outcome = "written" THEN "UnicodeEncodeError"
                               ELSE "OSError")
                      /\ report' = "partial"
  /\ UNCHANGED <<script, file, stdout, uncaught, data, stats, gres, libm_pow, running,
                 png, msg, ret, banner, fnVars>>

\* return {...} (full) / return actual_g, avg_rg, std_rg (half)
result(s, st, g) ==
  IF s = "full"
  THEN Value([mean_rg |-> st.mean_rg, std_rg |-> st.std_rg,
              conf_int |-> st.conf_int, n_samples |-> st.n])
  ELSE Value(<<g.actual_g, st.avg_rg, st.std_rg>>)

Return ==
  /\ pc = "reported"
  /\ ret' = result(script, stats[1], IF gres = <<>> THEN gres ELSE gres[1])
  /\ pc' = "returned"
  /\ UNCHANGED <<script, file, stdout, uncaught, data, stats, gres, libm_pow, running,
                 png, report, report_encoding, err, msg, banner, fnVars>>

\* except FileNotFoundError: ... / except Exception as e: ...
handler(e) == IF e = "FileNotFoundError" THEN "not_found" ELSE "error"

\* the except clause prints and returns the failure value; when its print cannot be
\* encoded, UnicodeEncodeError leaves the clause, the function and the program
Except ==
  /\ pc = "raised"
  /\ IF encodes(stdout, handler_text(script, err, file))
     THEN /\ msg' = IF handler(err) = "not_found"
                    THEN <<"not_found", default_filename(script)>>
                    ELSE <<"error", err>>
          /\ ret' = Failure
          /\ pc' = "returned"
          /\ uncaught' = uncaught
     ELSE /\ pc' = "crashed"
          /\ uncaught' = "UnicodeEncodeError"
          /\ msg' = msg
          /\ ret' = ret
  /\ UNCHANGED <<script, file, stdout, data, stats, gres, libm_pow, running, png,
                 report, report_encoding, err, banner, fnVars>>

\* if results: / if g_factor is not None: print the completion banner
Main ==
  /\ pc = "returned"
  /\ IF ret.kind = "value" /\ ~encodes(stdout, banner_text(script))
     THEN pc' = "crashed" /\ uncaught' = "UnicodeEncodeError" /\ banner' = banner
     ELSE pc' = "exit" /\ uncaught' = uncaught /\ banner' = (ret.kind = "value")
  /\ UNCHANGED <<script, file, stdout, data, stats, gres, libm_pow, running, png,
                 report, report_encoding, err, msg, ret, fnVars>>

Next ==
  \/ Load
  \/ AnalyzeFull
  \/ AnalyzeHalf
  \/ PlotAndSave
  \/ Show
  \/ WriteReport
  \/ Return
  \/ Except
  \/ Main

Spec == Init /\ [][Next]_vars

(***************************************************************************)
(* The pure operators applied on their own to enumerated inputs.           *)
(***************************************************************************)
\* the differences the classification is applied to: k/200, the neighbours
\* of the two thresholds, infinity and NaN
DInputs ==
  {FDiv(FromInt(k), FromInt(200)) : k \in 0..MaxD}
    \cup {Fin(0, <<6553, 13107, 26214, 204>>, -57),
          Fin(0, <<6555, 13107, 26214, 204>>, -57),
          Fin(0, <<6553, 13107, 26214, 204>>, -56),
          Fin(0, <<6555, 13107, 26214, 204>>, -56),
          FInf(0), FNaN}

\* the measured averages the g-factor computation is applied to
GInputs ==
  {FZero(0), F_0_1, F_10, F_3_7, F_10_7277, FNeg(F_10), F_1e200, F_2em162,
   FInf(0), FNaN}

InitFn ==
  /\ script = "half"
  /\ file = MissingFile
  /\ stdout = "utf-8"
  /\ uncaught = "none"
  /\ pc = "idle"
  /\ data = <<>>
  /\ stats = <<>>
  /\ gres = <<>>
  /\ libm_pow = {}
  /\ running = <<>>
  /\ png = "absent"
  /\ report = "absent"
  /\ report_encoding = "none"
  /\ err = "none"
  /\ msg = <<>>
  /\ ret = Pending
  /\ banner = FALSE
  /\ res = <<>>
  /\ \/ fn = "select" /\ arg \in {[i \in 1..n |-> i] : n \in 0..MaxRun}
     \/ fn = "g_factor" /\ arg \in GInputs
     \/ fn = "classify" /\ arg \in DInputs
     \/ fn = "running" /\ arg \in SeqsUpTo(RunValues, MaxRun) \ {<<>>}

ApplySelect ==
  /\ fn = "select"
  /\ res = <<>>
  /\ res' = <<[equilibrated_start |-> equilibrated_start(Len(arg)),
               equilibrated_rg |-> equilibrated_rg(arg)]>>
  /\ UNCHANGED <<progVars, fn, arg>>

\* the g-factor computation, and its repetitions on the same input
ApplyGFactor ==
  /\ fn = "g_factor"
  /\ Len(res) < MaxCalls
  /\ \E r \in g_factor_of_build(arg, libm_pow) :
       res' = Append(res, r) /\ libm_pow' = libm_pow \cup pow_calls(r)
  /\ UNCHANGED <<script, file, stdout, uncaught, pc, data, stats, gres, running, png,
                 report, report_encoding, err, msg, ret, banner, fn, arg>>

ApplyClassify ==
  /\ fn = "classify"
  /\ res = <<>>
  /\ res' = <<classify(arg)>>
  /\ UNCHANGED <<progVars, fn, arg>>

ApplyRunning ==
  /\ fn = "running"
  /\ res = <<>>
  /\ res' = <<[running_avg |-> running_average(arg), mean_rg |-> np_mean(arg)]>>
  /\ UNCHANGED <<progVars, fn, arg>>

NextFn ==
  \/ ApplySelect
  \/ ApplyGFactor
  \/ ApplyClassify
  \/ ApplyRunning

SpecFn == InitFn /\ [][NextFn]_vars

(***************************************************************************)
(* Properties.                                                             *)
(***************************************************************************)
\* a <= b in float64 (false when either side is NaN)
FLeq(a, b) == FLess(a, b) \/ FEq(a, b)

Returned == pc \in {"returned", "exit"}

\* the run is over: it returned or an exception ended the program
Ended == pc \in {"returned", "exit", "crashed"}

AllEqual(s) == s # <<>> /\ \A i \in 1..Len(s) : s[i] = s[1]

\* k * v is a float64 value (the product needs no rounding and does not overflow)
ExactMultiple(v, k) ==
  LET p == BMulSmall(v.man, k)
      r == RoundPack(0, p, v.exp, FALSE)
  IN  IsFinite(r) /\ BShl(r.man, r.exp - v.exp) = p

ExactMultiples(v, n) == IsFinite(v) /\ \A k \in 1..n : ExactMultiple(v, k)

\* the mean the statistics record holds (mean_rg in one script, avg_rg in the other)
MeanField(s, st) == IF s = "full" THEN st.mean_rg ELSE st.avg_rg

\* C1: for every non-empty series of length N the half-tail selection is the
\* contiguous index range [N div 2, N) (floor division): its length is
\* N - N div 2, it is not longer than N, it is non-empty and it ends at the
\* last index N - 1.
C1_HalfTailWindow ==
  (fn = "select" /\ res # <<>> /\ arg # <<>>) =>
    LET n == Len(arg)
        start == res[1].equilibrated_start
        w == res[1].equilibrated_rg
    IN  /\ 2 * start <= n
        /\ n < 2 * start + 2
        /\ Len(w) = n - start
        /\ Len(w) <= n
        /\ Len(w) >= 1
        /\ \A k \in 1..Len(w) : w[k] = arg[start + k]
        /\ w[Len(w)] = arg[n]

C1_Witness ==
  /\ fn = "select"
  /\ Len(arg) = 5
  /\ res = <<[equilibrated_start |-> 2, equilibrated_rg |-> <<3, 4, 5>>]>>

\* the computed g-factor of a result is within 1e-9 of expected_g
WithinTolerance(r) == FLess(r.difference, F_1em9)
\* the applications of the g-factor computation to one input gave one result
SameResults(rs) == \A i \in 1..Len(rs) : rs[i] = rs[1]

\* C2 as stated: for every measured average Rg the computed g-factor equals
\* expected_g within 1e-9, and repeating the computation gives the same result.
C2_AlwaysExpected ==
  (fn = "g_factor" /\ res # <<>>) =>
    /\ \A i \in 1..Len(res) : FLeq(res[i].difference, F_1em9)
    /\ SameResults(res)

\* C2 amended: for every measured average Rg whose square and whose linear
\* reference's square are normal float64 values (neither overflow nor
\* underflow), the computed g-factor is within 1e-9 of expected_g, whichever
\* result the build's pow returns; for a zero or non-finite average it is NaN;
\* at Rg = 2e-162 it is 0.05 or more away from expected_g; and repeating the
\* computation on the same input gives the same result.
C2_ExpectedInNormalRange ==
  (fn = "g_factor" /\ res # <<>>) =>
    /\ \A i \in 1..Len(res) :
         /\ (IsNormal(res[i].sq_tetracyclic) /\ IsNormal(res[i].sq_linear))
              => WithinTolerance(res[i])
         /\ (IsZero(arg) \/ ~IsFinite(arg)) => IsNaN(res[i].actual_g)
         /\ arg = F_2em162 => FLeq(F_0_05, res[i].difference)
    /\ SameResults(res)

\* the computation was repeated on Rg = 0.1, whose square pow may round either
\* way: the result is within the tolerance, not exactly expected_g, and the same
C2_Witness ==
  /\ fn = "g_factor"
  /\ arg = F_0_1
  /\ Len(res) = MaxCalls
  /\ Cardinality(Pow2(arg)) = 2
  /\ IsNormal(res[1].sq_tetracyclic)
  /\ IsNormal(res[1].sq_linear)
  /\ WithinTolerance(res[2])
  /\ ~IsZero(res[2].difference)
  /\ res[2] = res[1]

\* the three bands of the classification
InExcellent(d) == FLess(d, F_0_05)
InGood(d) == FLeq(F_0_05, d) /\ FLess(d, F_0_1)
InNeedsReview(d) == FLeq(F_0_1, d)

Bands(d, v) ==
  /\ (v = "excellent") <=> InExcellent(d)
  /\ (v = "good") <=> InGood(d)
  /\ (v = "needs_review") <=> InNeedsReview(d)
  /\ Cardinality({b \in {"e", "g", "n"} :
        \/ b = "e" /\ InExcellent(d)
        \/ b = "g" /\ InGood(d)
        \/ b = "n" /\ InNeedsReview(d)}) = 1

\* C3 as stated: d < 0.05 is excellent, 0.05 <= d < 0.10 is good, d >= 0.10 is
\* needs_review, and every d falls in exactly one band.
C3_EveryDifferenceInOneBand ==
  (fn = "classify" /\ res # <<>>) => Bands(arg, res[1])

\* C3 amended: every difference that is not NaN falls in exactly one of the
\* half-open bands and is classified by it (0.05 exactly is good, 0.10 exactly
\* is needs_review); a NaN difference is in no band and is classified
\* needs_review.
C3_HalfOpenBands ==
  (fn = "classify" /\ res # <<>>) =>
    /\ ~IsNaN(arg) => Bands(arg, res[1])
    /\ arg = F_0_05 => res[1] = "good"
    /\ arg = F_0_1 => res[1] = "needs_review"
    /\ IsNaN(arg) =>
         /\ res[1] = "needs_review"
         /\ ~InExcellent(arg) /\ ~InGood(arg) /\ ~InNeedsReview(arg)

C3_Witness ==
  /\ fn = "classify"
  /\ arg = F_0_05
  /\ res = <<"good">>

OneRowHalf == script = "half" /\ file.kind = "table" /\ file.nrows = 1

\* C4: the half-tail analysis of a one-row series ends with an insufficient-data
\* error and returns the failure value.
C4_InsufficientDataError ==
  (OneRowHalf /\ Ended) =>
    /\ err = "InsufficientDataError"
    /\ ret = Failure

\* C5: when the input file does not exist, both scripts end in the
\* file-not-found outcome naming the file, return the failure value, and have
\* written neither rg_analysis_results.png nor the report file.
C5_NotFound ==
  (file.kind = "missing" /\ Ended) =>
    /\ ret = Failure
    /\ err = "FileNotFoundError"
    /\ msg = <<"not_found", default_filename(script)>>
    /\ uncaught = "none"
    /\ png = "absent" /\ report = "absent"

\* C6: a run that ends in failure has written no output file, whatever step
\* the error occurred at.
C6_FailureWritesNothing ==
  (Returned /\ ret = Failure) => (png = "absent" /\ report = "absent")

EmptyTable == file.kind = "table" /\ file.nrows = 0

\* C7: an input that exists but parses to zero rows ends in an outcome distinct
\* from file-not-found and is never passed to the statistics or the g-factor
\* computation.
C7_EmptyInput ==
  EmptyTable =>
    /\ data = <<>> /\ stats = <<>> /\ gres = <<>> /\ running = <<>>
    /\ ret.kind # "value"
    /\ png = "absent" /\ report = "absent"
    /\ Ended =>
         /\ err = "IndexError"
         /\ handler(err) # handler(loadtxt_error(MissingFile))
    /\ Returned =>
         /\ ret = Failure
         /\ msg = <<"error", "IndexError">>

C7_Witness ==
  /\ EmptyTable
  /\ pc = "exit"
  /\ ret = Failure
  /\ msg = <<"error", "IndexError">>

\* the mean of the first i values
PrefixMean(s, i) == np_mean(SubSeq(s, 1, i))

\* C8 as stated: the running average has N elements, element i is the mean of
\* values[0..i] and the last element is the full-series mean.
C8_RunningIsPrefixMean ==
  (fn = "running" /\ res # <<>>) =>
    LET n == Len(arg)
        ra == res[1].running_avg
    IN  /\ Len(ra) = n
        /\ \A i \in 1..n : FEq(ra[i], PrefixMean(arg, i))
        /\ FEq(ra[n], res[1].mean_rg)

\* C8 amended: the running average has N elements, element 0 is values[0],
\* and element i is the mean of values[0..i] for i + 1 < 8 (the length from
\* which np.mean sums in eight interleaved accumulators instead of left to
\* right); so for N < 8 the last element is the full-series mean.
C8_RunningIsPrefixMeanBelowUnroll ==
  (fn = "running" /\ res # <<>>) =>
    LET n == Len(arg)
        ra == res[1].running_avg
    IN  /\ Len(ra) = n
        /\ FSame(ra[1], arg[1])
        /\ \A i \in 1..n : i < PW_UNROLL => FSame(ra[i], PrefixMean(arg, i))
        /\ n < PW_UNROLL => FSame(ra[n], res[1].mean_rg)

C8_Witness ==
  /\ fn = "running"
  /\ arg = <<F_0_1, F_10, F_0_1, F_0_1, F_10, F_0_1, F_0_1>>
  /\ res # <<>>
  /\ FSame(res[1].running_avg[7], res[1].mean_rg)

\* C9 as stated: for a series whose values all equal v, under both selection
\* policies the mean is v, the population standard deviation is exactly 0 and
\* min = max = v.
C9_ConstantSeriesExact ==
  (stats # <<>> /\ AllEqual(data[1].rg_values)) =>
    LET v == data[1].rg_values[1]
        st == stats[1]
    IN  /\ FEq(MeanField(script, st), v)
        /\ IsZero(st.std_rg)
        /\ script = "full" => (FEq(st.min_rg, v) /\ FEq(st.max_rg, v))

\* C9 amended: for a series whose values all equal v, min = max = v; the
\* standard deviation is exactly 0 whenever the computed mean equals v, which
\* it does whenever the multiples k*v up to the window length are float64
\* values (as for v = 10.0); the half-tail window is [N div 2, N).
C9_ConstantSeries ==
  (stats # <<>> /\ AllEqual(data[1].rg_values)) =>
    LET v == data[1].rg_values[1]
        st == stats[1]
        n == Len(data[1].rg_values)
    IN  /\ FEq(MeanField(script, st), v) => IsZero(st.std_rg)
        /\ ExactMultiples(v, Len(st.window)) =>
             (FEq(MeanField(script, st), v) /\ IsZero(st.std_rg))
        /\ script = "full" =>
             (st.window = data[1].rg_values /\ FEq(st.min_rg, v) /\ FEq(st.max_rg, v))
        /\ script = "half" =>
             (st.equilibrated_start = n \div 2 /\ Len(st.window) = n - n \div 2)

C9_Witness ==
  /\ script = "full"
  /\ stats # <<>>
  /\ data[1].rg_values = <<F_10, F_10, F_10, F_10>>
  /\ stats[1].mean_rg = F_10
  /\ IsZero(stats[1].std_rg)
  /\ stats[1].min_rg = F_10
  /\ stats[1].max_rg = F_10

\* the branch of the classification the run took, or "none" when it raised before
BranchTaken(g) == IF "verdict" \in DOMAIN g THEN g.verdict ELSE "none"

\* C10 as stated: in the half-tail script a non-zero equilibrated mean always
\* reaches the excellent branch, and needs-review is reached only by a mean of
\* exactly 0.
C10_NonZeroMeanExcellent ==
  (script = "half" /\ gres # <<>> /\ BranchTaken(gres[1]) # "none") =>
    /\ ~IsZero(stats[1].avg_rg) => BranchTaken(gres[1]) = "excellent"
    /\ BranchTaken(gres[1]) = "needs_review" => IsZero(stats[1].avg_rg)

\* C10 amended: in the half-tail script, a run that reaches the classification
\* with an equilibrated mean whose square and whose linear reference's square
\* are normal float64 values takes the excellent branch; a mean of exactly 0
\* gives a NaN g-factor, and a NaN g-factor takes needs-review; a mean of
\* 2e-162 takes the good branch and a mean of 1e200 needs-review; the
\* classification is reached exactly when standard output can encode the
\* results line.
C10_NormalMeanExcellent ==
  (script = "half" /\ gres # <<>>) =>
    LET g == gres[1]
    IN  /\ g.rg_tetracyclic = stats[1].avg_rg
        /\ IsZero(stats[1].avg_rg) => IsNaN(g.actual_g)
        /\ (BranchTaken(g) # "none") <=> encodes(stdout, results_text(script))
        /\ BranchTaken(g) # "none" =>
             /\ (IsNormal(g.sq_tetracyclic) /\ IsNormal(g.sq_linear))
                  => BranchTaken(g) = "excellent"
             /\ IsNaN(g.actual_g) => BranchTaken(g) = "needs_review"
             /\ stats[1].avg_rg = F_2em162 => BranchTaken(g) = "good"
             /\ stats[1].avg_rg = F_1e200 => BranchTaken(g) = "needs_review"

C10_Witness ==
  /\ script = "half"
  /\ gres # <<>>
  /\ stats[1].avg_rg = F_10
  /\ IsNormal(gres[1].sq_tetracyclic)
  /\ BranchTaken(gres[1]) = "excellent"
====
